---- MODULE Spec2Model ----
(***************************************************************************)
(* Model of GasExposureAnalytics (src/src/GasExposureAnalytics.py): the    *)
(* configuration validator, the block reader, the resample/backfill grid,  *)
(* the fixed-denominator time-weighted averages, the limit gauges, the     *)
(* status LED and the run_analytics entry point with its sink.             *)
(*                                                                         *)
(* Time is counted in seconds.  Sensor readings are stored against the     *)
(* floor of their minute, so every reading's timestamp is a multiple of    *)
(* SECS_PER_MIN.  Concentrations and limits are whole ppm; a time-weighted *)
(* average rounded to r decimals is held as the integer TWA * 10^r.        *)
(***************************************************************************)
EXTENDS Integers, Sequences, FiniteSets, TLC

(* ------------------------------ bounds -------------------------------- *)
\* last minute of the modelled clock (minutes 0 .. MaxMinute)
MaxMinute == 8
\* most readings the sensor log ever holds
MaxReadings == 2
\* most batches the analytics table ever holds
MaxSink == 1
\* seconds past the minute of a tick that is not on a minute boundary
SubMinute == 30

(* ------------------------- program constants -------------------------- *)
GREEN == 1
YELLOW == 2
RED == 3
GREEN_RANGE_START == 0
RED_RANGE_START == 99
\* backfill(limit=3)
BACKFILL_LIMIT == 3
\* pd.Timedelta(minutes = 1) / floor(freq='min'), in seconds
SECS_PER_MIN == 60

CO == "carbon_monoxide"
NO2 == "nitrogen_dioxide"
HCN == "hydrogen_cyanide"

\* Sensor ranges in hundredths of a ppm (1 .. 1000 ppm and 0.05 .. 10 ppm).
SENSOR_RANGE_PPM ==
    (CO :> [min |-> 100, max |-> 100000]) @@ (NO2 :> [min |-> 5, max |-> 1000])

\* The firefighter_id of a grid row that resampling created and backfill left empty.
NaN == "NaN"
\* The gas columns of such a row.
NaNRow == [g \in {} |-> 0]

(* ------------------------------ helpers ------------------------------- *)
Range(s) == {s[i] : i \in DOMAIN s}

RECURSIVE SetSum(_, _)
\* Sum of f[x] over x in S.
SetSum(f, S) ==
    IF S = {} THEN 0
    ELSE LET x == CHOOSE y \in S : TRUE IN f[x] + SetSum(f, S \ {x})

SetMax(S) == CHOOSE x \in S : \A y \in S : y <= x
SetMin(S) == CHOOSE x \in S : \A y \in S : x <= y

RECURSIVE Pow10(_)
Pow10(n) == IF n = 0 THEN 1 ELSE 10 * Pow10(n - 1)

\* numpy's rounding of the quotient n / d (n >= 0, d > 0): to the nearest
\* integer, a tie to the even one.
RoundHalfEven(n, d) ==
    LET q == n \div d
        r == n % d
    IN  IF 2 * r < d THEN q
        ELSE IF 2 * r > d THEN q + 1
        ELSE IF q % 2 = 0 THEN q ELSE q + 1

\* Timestamp.floor(freq='min')
FloorMin(t) == t - (t % SECS_PER_MIN)

(* --------------------------- configuration ---------------------------- *)
\* prometeo_config.json as loaded by __init__: the windows (label, mins,
\* gas_limits in ppm), the supported gases in their configured order, the
\* yellow percentage, and the rounding factor with its JSON type.
Window(label, mins, limits) == [label |-> label, mins |-> mins, gas_limits |-> limits]

Config(windows, gases, yellow, rounding) ==
    [WINDOWS_AND_LIMITS |-> windows, SUPPORTED_GASES |-> gases,
     YELLOW_WARNING_PERCENT |-> yellow, SAFE_ROUNDING_FACTOR |-> rounding]

IntFactor(n) == [type |-> "int", value |-> n]
\* a JSON number that is no integer, held in tenths (15 is 1.5)
FloatFactor(tenths) == [type |-> "float", value |-> tenths]

\* The configuration the analytics serves ticks with: a short and a long
\* window, listed shortest first.
ServingConfig ==
    Config(<<Window("2min", 2, (CO :> 100) @@ (NO2 :> 4)),
             Window("7min", 7, (CO :> 50) @@ (NO2 :> 2))>>,
           <<CO, NO2>>, 50, IntFactor(1))

\* The same windows with the lowest yellow percentage the validator lets
\* through (line 87: greater than 0 and less than 100).
LowYellowConfig ==
    Config(ServingConfig.WINDOWS_AND_LIMITS, ServingConfig.SUPPORTED_GASES,
           1, ServingConfig.SAFE_ROUNDING_FACTOR)

\* Configurations that break one or more of the validator's checks.
BrokenConfigs ==
    { \* NO2 is supported but the second window has no limit for it; yellow is 0
      Config(<<Window("2min", 2, (CO :> 100) @@ (NO2 :> 4)),
               Window("7min", 7, (CO :> 50))>>,
             <<CO, NO2>>, 0, IntFactor(1)),
      \* NO2 is supported but no window has a limit for it; rounding is 1.5
      Config(<<Window("2min", 2, (CO :> 100)), Window("7min", 7, (CO :> 50))>>,
             <<CO, NO2>>, 50, FloatFactor(15)),
      \* the windows cover different gases, all supported gases are covered
      Config(<<Window("2min", 2, (CO :> 100) @@ (NO2 :> 4)),
               Window("7min", 7, (CO :> 50))>>,
             <<CO>>, 100, IntFactor(1)),
      \* a CO limit above the sensor's range, yellow 100, a negative rounding
      Config(<<Window("2min", 2, (CO :> 2000) @@ (NO2 :> 4)),
               Window("7min", 7, (CO :> 50) @@ (NO2 :> 2))>>,
             <<CO, NO2>>, 100, IntFactor(-1)),
      \* an NO2 limit above the sensor's range only
      Config(<<Window("2min", 2, (CO :> 100) @@ (NO2 :> 11)),
               Window("7min", 7, (CO :> 50) @@ (NO2 :> 2))>>,
             <<CO, NO2>>, 50, IntFactor(1)),
      \* a supported gas the sensor table does not know; yellow is 0
      Config(<<Window("2min", 2, (HCN :> 10)), Window("7min", 7, (HCN :> 5))>>,
             <<HCN>>, 0, IntFactor(1)) }

Configs == {ServingConfig, LowYellowConfig} \cup BrokenConfigs

(* ----------------------------- validator ------------------------------ *)
Issue(check, gas) == [check |-> check, gas |-> gas]

\* line 57: the windows whose gas set differs from the first window's
MismatchedWindows(cfg) ==
    {i \in DOMAIN cfg.WINDOWS_AND_LIMITS :
        DOMAIN cfg.WINDOWS_AND_LIMITS[i].gas_limits
            # DOMAIN cfg.WINDOWS_AND_LIMITS[1].gas_limits}

\* line 69
SupportedCovered(cfg) ==
    Range(cfg.SUPPORTED_GASES) \subseteq DOMAIN cfg.WINDOWS_AND_LIMITS[1].gas_limits

\* lines 78-79: window[GAS_LIMITS_PROPERTY][gas] or SENSOR_RANGE_PPM[gas] has no such key
RangeLookupFails(cfg, gas) ==
    \/ \E i \in DOMAIN cfg.WINDOWS_AND_LIMITS :
            gas \notin DOMAIN cfg.WINDOWS_AND_LIMITS[i].gas_limits
    \/ gas \notin DOMAIN SENSOR_RANGE_PPM

\* line 79, the limits in ppm against the range in hundredths of a ppm
OutOfSensorRange(cfg, gas) ==
    LET limits == {cfg.WINDOWS_AND_LIMITS[i].gas_limits[gas] :
                        i \in DOMAIN cfg.WINDOWS_AND_LIMITS}
    IN  \/ 100 * SetMin(limits) < SENSOR_RANGE_PPM[gas].min
        \/ 100 * SetMax(limits) > SENSOR_RANGE_PPM[gas].max

RECURSIVE CheckSensorRanges(_, _, _)
\* lines 77-84: the loop over the supported gases from the i-th on; issues
\* holds the messages so far.  A failed lookup ends the loop with a KeyError.
CheckSensorRanges(cfg, i, issues) ==
    IF i > Len(cfg.SUPPORTED_GASES) THEN [keyerror |-> FALSE, issues |-> issues]
    ELSE LET gas == cfg.SUPPORTED_GASES[i] IN
         IF RangeLookupFails(cfg, gas) THEN [keyerror |-> TRUE, issues |-> issues]
         ELSE CheckSensorRanges(cfg, i + 1,
                IF OutOfSensorRange(cfg, gas)
                THEN Append(issues, Issue(3, gas)) ELSE issues)

\* line 87
YellowValid(cfg) ==
    cfg.YELLOW_WARNING_PERCENT > 0 /\ cfg.YELLOW_WARNING_PERCENT < 100

\* line 95
RoundingValid(cfg) ==
    ~ (cfg.SAFE_ROUNDING_FACTOR.type # "int" \/ ~ (cfg.SAFE_ROUNDING_FACTOR.value >= 0))

\* _validate_config: what it raises, the issues it logged one by one before
\* that, and the issues the raised diagnostic lists.
validate_config(cfg) ==
    LET i1 == IF MismatchedWindows(cfg) # {} THEN <<Issue(1, "")>> ELSE <<>>
        i2 == IF ~ SupportedCovered(cfg) THEN <<Issue(2, "")>> ELSE <<>>
        r3 == CheckSensorRanges(cfg, 1, i1 \o i2)
        i4 == IF ~ YellowValid(cfg) THEN <<Issue(4, "")>> ELSE <<>>
        i5 == IF ~ RoundingValid(cfg) THEN <<Issue(5, "")>> ELSE <<>>
        all == r3.issues \o i4 \o i5
    IN  IF r3.keyerror
        THEN [raised |-> "KeyError", logged |-> r3.issues, diagnostic |-> <<>>]
        ELSE IF all # <<>>
        THEN [raised |-> "AssertionError", logged |-> all, diagnostic |-> all]
        ELSE [raised |-> "none", logged |-> <<>>, diagnostic |-> <<>>]

(* ----------------------------- sensor log ----------------------------- *)
Entities == {"ff1", "ff2"}

\* The columns of firefighter_sensor_log besides the two keys.
SensorCols == {CO, NO2}

\* The concentrations (ppm) around each firefighter in each minute: what a
\* reading of that minute reports when it reaches the log.
Exposure(e, m) ==
    LET k == (m % 4) + 1 IN
    IF e = "ff1"
    THEN (CO :> <<30, 60, 2, 198>>[k]) @@ (NO2 :> <<1, 3, 0, 2>>[k])
    ELSE (CO :> <<10, 20, 98, 100>>[k]) @@ (NO2 :> <<0, 0, 0, 0>>[k])

\* One row of the sensor log; timestamp_mins is the floor of its minute.
Reading(e, m) ==
    [firefighter_id |-> e, timestamp_mins |-> m * SECS_PER_MIN, ppm |-> Exposure(e, m)]

\* The instants run_analytics is called with: on the minute and inside it.
TickMinute == MaxMinute - 1
TickTimes == {TickMinute * SECS_PER_MIN, TickMinute * SECS_PER_MIN + SubMinute}

(* ---------------------------- block reader ---------------------------- *)
LongestWindow(cfg) ==
    SetMax({cfg.WINDOWS_AND_LIMITS[i].mins : i \in DOMAIN cfg.WINDOWS_AND_LIMITS})

\* _get_block_of_sensor_readings: the rows between window_start and the
\* floored window_end, both included.
get_block_of_sensor_readings(cfg, log, window_end) ==
    LET end == FloorMin(window_end)
        start == end - LongestWindow(cfg) * SECS_PER_MIN
    IN  {r \in log : start <= r.timestamp_mins /\ r.timestamp_mins <= end}

(* ------------------------ resample and backfill ----------------------- *)
\* df[a.isoformat():b.isoformat()] on a DatetimeIndex: the rows whose
\* timestamp lies between the instants a and b, both included (a string
\* with seconds bounds the slice at that second).
InSlice(ts, a, b) == a <= ts /\ ts <= b

\* One row of the resampled frame: its timestamp, the group it was built
\* for, and the columns (firefighter_id and the sensor columns).
GridRow(ts, grp, id, ppm) ==
    [timestamp_mins |-> ts, group |-> grp, firefighter_id |-> id, ppm |-> ppm]

\* Variant of BackfillGroup: the fill runs forward, a minute without a
\* reading copies the previous reading if that is at most 3 minutes earlier.
ForwardFillGroup(rows, e) ==
    LET stamps == {r.timestamp_mins : r \in rows}
        first == SetMin(stamps)
        last == SetMax(stamps)
        slots == {first + k * SECS_PER_MIN : k \in 0 .. ((last - first) \div SECS_PER_MIN)}
        prev(t) == SetMax({u \in stamps : u <= t})
        at(u) == CHOOSE r \in rows : r.timestamp_mins = u
    IN  {IF t - prev(t) <= BACKFILL_LIMIT * SECS_PER_MIN
         THEN GridRow(t, e, at(prev(t)).firefighter_id, at(prev(t)).ppm)
         ELSE GridRow(t, e, NaN, NaNRow) : t \in slots}

\* Variant of BackfillGroup: the fill has no limit.
BackfillGroupUnlimited(rows, e) ==
    LET stamps == {r.timestamp_mins : r \in rows}
        first == SetMin(stamps)
        last == SetMax(stamps)
        slots == {first + k * SECS_PER_MIN : k \in 0 .. ((last - first) \div SECS_PER_MIN)}
        next(t) == SetMin({u \in stamps : u >= t})
        at(u) == CHOOSE r \in rows : r.timestamp_mins = u
    IN  {GridRow(t, e, at(next(t)).firefighter_id, at(next(t)).ppm) : t \in slots}

\* resample(1 min).backfill(limit=3) of one firefighter's rows: a row per
\* minute from the first to the last reading; a minute without a reading
\* copies the next reading if that is at most 3 minutes later, and is an
\* all-NaN row otherwise.
BackfillGroup(rows, e) ==
    LET stamps == {r.timestamp_mins : r \in rows}
        first == SetMin(stamps)
        last == SetMax(stamps)
        slots == {first + k * SECS_PER_MIN : k \in 0 .. ((last - first) \div SECS_PER_MIN)}
        next(t) == SetMin({u \in stamps : u >= t})
        at(u) == CHOOSE r \in rows : r.timestamp_mins = u
    IN  {IF next(t) - t <= BACKFILL_LIMIT * SECS_PER_MIN
         THEN GridRow(t, e, at(next(t)).firefighter_id, at(next(t)).ppm)
         ELSE GridRow(t, e, NaN, NaNRow) : t \in slots}

\* groupby(firefighter_id).resample(...).backfill(limit=3)
Resample(df) ==
    UNION {BackfillGroup({r \in df : r.firefighter_id = e}, e) :
                e \in {r.firefighter_id : r \in df}}

(* ------------------ time-weighted averages and gauges ------------------ *)
RECURSIVE SortedDescending(_)
\* sorted(windows, key=mins, reverse=True): the longest window first, equal
\* lengths in their configured order.
SortedDescending(ws) ==
    IF ws = <<>> THEN <<>>
    ELSE LET top == SetMax({ws[i].mins : i \in DOMAIN ws})
             k == SetMin({i \in DOMAIN ws : ws[i].mins = top})
         IN  <<ws[k]>> \o SortedDescending(SubSeq(ws, 1, k - 1) \o SubSeq(ws, k + 1, Len(ws)))

\* Variant of CommonKey: the key is the tick's own minute.
TickKey(current_timestamp) == FloorMin(current_timestamp)

\* (current_timestamp - 1 min).floor('min'): the key every record of a tick carries
CommonKey(current_timestamp) == FloorMin(current_timestamp - SECS_PER_MIN)

\* Variant of WindowSlice: without the slice correction of one minute, the
\* inclusive slice starts at current_timestamp - window.
WindowSliceUncorrected(df, window_mins, current_timestamp) ==
    {row \in df : InSlice(row.timestamp_mins,
                          current_timestamp - window_mins * SECS_PER_MIN,
                          current_timestamp)}

\* The rows of the resampled frame inside a window of window_mins minutes:
\* .loc[(current_timestamp - window + 1 min).isoformat() : current_timestamp.isoformat()]
WindowSlice(df, window_mins, current_timestamp) ==
    {row \in df : InSlice(row.timestamp_mins,
                          current_timestamp - window_mins * SECS_PER_MIN + SECS_PER_MIN,
                          current_timestamp)}

\* Variant of WindowTWA: the mean over the rows the window happens to hold.
WindowMean(rows, gas, window_mins, rounding) ==
    RoundHalfEven(SetSum([row \in rows |-> row.ppm[gas]], rows) * Pow10(rounding),
                  Cardinality(rows))

\* line 289: the sum of one gas over a firefighter's rows in the window,
\* divided by the window's sample count and rounded to rounding decimals;
\* the result is the average times 10^rounding.
WindowTWA(rows, gas, window_mins, rounding) ==
    RoundHalfEven(SetSum([row \in rows |-> row.ppm[gas]], rows) * Pow10(rounding),
                  window_mins)

\* Variant of LimitsInColumnOrder: the limits in the opposite order of the columns.
LimitsInReverseOrder(window, columns) ==
    [i \in DOMAIN columns |-> window.gas_limits[columns[Len(columns) + 1 - i]]]

\* line 298: the window's limits, one per column of the TWA frame
LimitsInColumnOrder(window, columns) ==
    [i \in DOMAIN columns |-> window.gas_limits[columns[i]]]

\* line 299: (twa * 100 / limit).round(0).astype(int) for the i-th column
WindowGauge(twa, limits, i, rounding) ==
    RoundHalfEven(twa * 100, limits[i] * Pow10(rounding))

\* Variant of WindowCalc: every firefighter of the frame gets a row for the
\* window, a firefighter without a row in the slice a row of zeros.
WindowCalcZeroFilled(cfg, cleaned, window, current_timestamp) ==
    LET window_df == WindowSlice(cleaned, window.mins, current_timestamp)
        ids == {row.firefighter_id : row \in cleaned} \ {NaN}
        of(e) == {row \in window_df : row.firefighter_id = e}
        columns == cfg.SUPPORTED_GASES
        rounding == cfg.SAFE_ROUNDING_FACTOR.value
        twa == [e \in ids |-> [g \in Range(columns) |->
                    RoundHalfEven(SetSum([row \in of(e) |-> row.ppm[g]], of(e))
                                    * Pow10(rounding), window.mins)]]
    IN  [label |-> window.label,
         empty |-> window_df = {},
         sane |-> \A e \in ids : Cardinality(of(e)) <= window.mins,
         twa |-> twa,
         gauge |-> [e \in ids |-> [g \in Range(columns) |->
                    RoundHalfEven(twa[e][g] * 100,
                                  window.gas_limits[g] * Pow10(rounding))]]]

\* Lines 258-306 for one window: whether its slice is empty, whether the
\* sanity assertion holds, and the TWA and gauge of every firefighter that
\* has a row in the slice.
WindowCalc(cfg, cleaned, window, current_timestamp) ==
    LET window_df == WindowSlice(cleaned, window.mins, current_timestamp)
        ids == {row.firefighter_id : row \in window_df} \ {NaN}
        of(e) == {row \in window_df : row.firefighter_id = e}
        columns == cfg.SUPPORTED_GASES
        rounding == cfg.SAFE_ROUNDING_FACTOR.value
        limits == LimitsInColumnOrder(window, columns)
        col(g) == CHOOSE i \in DOMAIN columns : columns[i] = g
        twa == [e \in ids |-> [g \in Range(columns) |->
                    WindowTWA(of(e), g, window.mins, rounding)]]
    IN  [label |-> window.label,
         empty |-> window_df = {},
         \* the maximum of no group sizes is NaN, and NaN <= mins is false
         sane |-> ids # {} /\ \A e \in ids : Cardinality(of(e)) <= window.mins,
         twa |-> twa,
         gauge |-> [e \in ids |-> [g \in Range(columns) |->
                    WindowGauge(twa[e][g], limits, col(g), rounding)]]]

(* ------------------------------- status ------------------------------- *)
\* pd.cut refuses bin edges that do not increase or that repeat
BinsValid(yellow_range_start) ==
    GREEN_RANGE_START < yellow_range_start /\ yellow_range_start < RED_RANGE_START

\* Variant of Cut: the bins are closed on the left, so that 99 is red.
CutLeftClosed(m, yellow_range_start) ==
    IF m < GREEN_RANGE_START THEN <<>>
    ELSE IF m < yellow_range_start THEN <<GREEN>>
    ELSE IF m < RED_RANGE_START THEN <<YELLOW>>
    ELSE <<RED>>

\* pd.cut(m, bins=[0, yellow_range_start, 99, inf], include_lowest=True,
\* labels=[GREEN, YELLOW, RED]): the bins are closed on the right, the first
\* also on the left; a value in no bin gets no label.
Cut(m, yellow_range_start) ==
    IF m < GREEN_RANGE_START THEN <<>>
    ELSE IF m <= yellow_range_start THEN <<GREEN>>
    ELSE IF m <= RED_RANGE_START THEN <<YELLOW>>
    ELSE <<RED>>

(* ---------------------- the calculation of a tick ---------------------- *)
\* One row of the returned frame, indexed by (firefighter_id, timestamp_mins):
\* the sensor columns of the latest reading (no columns when they are null),
\* the TWA and gauge columns of every window that has a result for the
\* firefighter, by window label, and the status LED (<<>> when it is NaN).
Record(e, key, sensor, twa, gauge, status) ==
    [firefighter_id |-> e, timestamp_mins |-> key, sensor |-> sensor,
     twa |-> twa, gauge |-> gauge, analytics_status_LED |-> status]

RECURSIVE WindowLoop(_, _, _, _)
\* lines 257-306: the loop over the windows, one WindowCalc per window
WindowLoop(cfg, cleaned, windows, current_timestamp) ==
    IF windows = <<>> THEN <<>>
    ELSE <<WindowCalc(cfg, cleaned, Head(windows), current_timestamp)>>
            \o WindowLoop(cfg, cleaned, Tail(windows), current_timestamp)

\* _calculate_TWA_and_gauge_for_all_firefighters: what it raises, the
\* resampled frame it worked on (longest_window_cleaned_df) and the rows of
\* the frame it returns.
calculate_TWA_and_gauge_for_all_firefighters(cfg, sensor_log_chunk_df, current_timestamp) ==
    LET windows == SortedDescending(cfg.WINDOWS_AND_LIMITS)
        longest_window_mins == windows[1].mins
        longest_window_df ==
            WindowSlice(sensor_log_chunk_df, longest_window_mins, current_timestamp)
        cleaned == Resample(longest_window_df)
        common_key == CommonKey(current_timestamp)
        latest == {row \in cleaned : row.timestamp_mins = common_key}
        calc == WindowLoop(cfg, cleaned, windows, current_timestamp)
        \* the windows the loop does not skip
        computed == {i \in DOMAIN calc : ~ calc[i].empty}
        index == {row.firefighter_id : row \in latest}
                    \cup UNION {DOMAIN calc[i].twa : i \in computed}
        yellow_range_start == cfg.YELLOW_WARNING_PERCENT - 1
        row(e) ==
            LET has == {i \in computed : e \in DOMAIN calc[i].twa}
                labels == {calc[i].label : i \in has}
                byLabel(l) == CHOOSE i \in has : calc[i].label = l
                gauges == {calc[i].gauge[e][g] : i \in has, g \in Range(cfg.SUPPORTED_GASES)}
            IN  Record(e, common_key,
                       IF \E r \in latest : r.firefighter_id = e
                       THEN (CHOOSE r \in latest : r.firefighter_id = e).ppm
                       ELSE NaNRow,
                       [l \in labels |-> calc[byLabel(l)].twa[e]],
                       [l \in labels |-> calc[byLabel(l)].gauge[e]],
                       IF gauges = {} THEN <<>>
                       ELSE Cut(SetMax(gauges), yellow_range_start))
    IN  IF \E i \in computed : ~ calc[i].sane
        THEN [raised |-> "AssertionError", cleaned |-> cleaned, rows |-> {}]
        \* nothing to concatenate (an empty resampled frame fails here at the latest)
        ELSE IF latest = {} /\ computed = {}
        THEN [raised |-> "Error", cleaned |-> cleaned, rows |-> {}]
        ELSE IF ~ BinsValid(yellow_range_start)
        THEN [raised |-> "Error", cleaned |-> cleaned, rows |-> {}]
        ELSE [raised |-> "none", cleaned |-> cleaned, rows |-> {row(e) : e \in index}]

(* ------------------------------- state -------------------------------- *)
VARIABLES
    config,        \* the loaded configuration
    constructed,   \* the outcome of __init__'s validation ("pending" before it)
    sensor_log,    \* the rows of firefighter_sensor_log
    sink,          \* firefighter_status_analytics: the batches appended so far
    call           \* the run_analytics call that has just returned, if any

vars == <<config, constructed, sensor_log, sink, call>>

Pending == [raised |-> "pending", logged |-> <<>>, diagnostic |-> <<>>]

NoCall ==
    [active |-> FALSE, time |-> 0, commit |-> FALSE, raised |-> "none",
     none |-> FALSE, cleaned |-> {}, returned |-> {}]

\* run_analytics(time, commit) on the log and the sink as they are: the
\* call's outcome (returned None or a frame, or raised; the resampled frame
\* it worked on) and the sink after it.
run_analytics(cfg, log, table, time, commit) ==
    LET sensor_log_df == get_block_of_sensor_readings(cfg, log, time)
        res == calculate_TWA_and_gauge_for_all_firefighters(cfg, sensor_log_df, time)
        outcome(raised, none, cleaned, returned) ==
            [active |-> TRUE, time |-> time, commit |-> commit, raised |-> raised,
             none |-> none, cleaned |-> cleaned, returned |-> returned]
    IN  IF sensor_log_df = {}
        THEN [call |-> outcome("none", TRUE, {}, {}), sink |-> table]
        ELSE IF res.raised # "none"
        THEN [call |-> outcome(res.raised, FALSE, res.cleaned, {}), sink |-> table]
        ELSE [call |-> outcome("none", FALSE, res.cleaned, res.rows),
              sink |-> IF commit THEN Append(table, res.rows) ELSE table]

Init ==
    /\ config \in Configs
    /\ constructed = Pending
    /\ sensor_log = {}
    /\ sink = <<>>
    /\ call = NoCall

\* __init__ up to the validation of the configuration
Construct ==
    /\ constructed = Pending
    /\ constructed' = validate_config(config)
    /\ UNCHANGED <<config, sensor_log, sink, call>>

\* The sensor pipeline stores the reading of firefighter e for minute m
\* (readings may arrive late and in any order).  The log is followed from
\* the moment the analytics serve ticks.
StoreReading(e, m) ==
    /\ constructed.raised = "none"
    /\ Cardinality(sensor_log) < MaxReadings
    /\ ~ \E r \in sensor_log :
            r.firefighter_id = e /\ r.timestamp_mins = m * SECS_PER_MIN
    /\ sensor_log' = sensor_log \cup {Reading(e, m)}
    /\ call' = NoCall
    /\ UNCHANGED <<config, constructed, sink>>

RunAnalytics(time, commit) ==
    /\ constructed.raised = "none"
    /\ commit => Len(sink) < MaxSink
    /\ LET out == run_analytics(config, sensor_log, sink, time, commit)
       IN  /\ call' = out.call
           /\ sink' = out.sink
    /\ UNCHANGED <<config, constructed, sensor_log>>

Next ==
    \/ Construct
    \/ \E e \in Entities, m \in 0 .. MaxMinute : StoreReading(e, m)
    \/ \E time \in TickTimes, commit \in BOOLEAN : RunAnalytics(time, commit)

Spec == Init /\ [][Next]_vars

(* ======================= properties of the model ====================== *)
\* A run_analytics call has just returned a frame.
Completed == call.active /\ call.raised = "none" /\ ~ call.none

Windows == Range(config.WINDOWS_AND_LIMITS)
Gases == Range(config.SUPPORTED_GASES)
Rounding == config.SAFE_ROUNDING_FACTOR.value

\* The minutes of the slice [tick - w.mins + 1 min, tick] of window w.
SliceMinutes(w, tick) ==
    {m \in 0 .. MaxMinute :
        /\ tick - w.mins * SECS_PER_MIN + SECS_PER_MIN <= m * SECS_PER_MIN
        /\ m * SECS_PER_MIN <= tick}

\* The filled slot of firefighter e at minute m in the call's grid, if any.
FilledSlot(e, m) ==
    {row \in call.cleaned :
        row.firefighter_id = e /\ row.timestamp_mins = m * SECS_PER_MIN}

\* The per-minute value of a slot: an empty or missing slot adds nothing.
SlotValue(e, m, g) ==
    IF FilledSlot(e, m) = {} THEN 0 ELSE (CHOOSE row \in FilledSlot(e, m) : TRUE).ppm[g]

RECURSIVE SumOfMinutes(_, _, _)
SumOfMinutes(e, g, minutes) ==
    IF minutes = {} THEN 0
    ELSE LET m == CHOOSE x \in minutes : TRUE
         IN  SlotValue(e, m, g) + SumOfMinutes(e, g, minutes \ {m})

FilledMinutes(e, w) == {m \in SliceMinutes(w, call.time) : FilledSlot(e, m) # {}}

RecordsOf(e) == {rec \in call.returned : rec.firefighter_id = e}

\* C1: for every window w and every firefighter with at least one filled
\* slot in w's slice [tick - w.mins + 1 min, tick], the returned TWA of every
\* supported gas is round(sum of the slice's per-minute values / w.mins,
\* safe_rounding_factor), whatever the number of filled slots.
C1_FixedDenominatorTWA ==
    Completed =>
        \A e \in Entities, w \in Windows :
            FilledMinutes(e, w) # {} =>
                /\ RecordsOf(e) # {}
                /\ \A rec \in RecordsOf(e) :
                    /\ w.label \in DOMAIN rec.twa
                    /\ \A g \in Gases :
                        rec.twa[w.label][g] =
                            RoundHalfEven(
                                SumOfMinutes(e, g, SliceMinutes(w, call.time)) * Pow10(Rounding),
                                w.mins)

\* A window that is only partly filled has a TWA above zero.
C1_Witness ==
    /\ Completed
    /\ \E e \in Entities, w \in Windows, rec \in call.returned :
        /\ rec.firefighter_id = e
        /\ Cardinality(FilledMinutes(e, w)) \in 1 .. (w.mins - 1)
        /\ w.label \in DOMAIN rec.twa
        /\ rec.twa[w.label][CO] > 0

\* The gauges of a record, over all windows and gases.
GaugesOf(rec) == {rec.gauge[l][g] : l \in DOMAIN rec.gauge, g \in Gases}
MaxGauge(rec) == SetMax(GaugesOf(rec))

\* C2 as stated: with m the maximum gauge of a record, status is red iff
\* m >= 99, yellow iff yellow_warning_percent <= m <= 98, green otherwise.
C2_StatusAsStated ==
    Completed =>
        \A rec \in call.returned :
            LET m == MaxGauge(rec)
                status == rec.analytics_status_LED
            IN  /\ GaugesOf(rec) # {}
                /\ (status = <<RED>>) <=> (m >= 99)
                /\ (status = <<YELLOW>>) <=>
                        (config.YELLOW_WARNING_PERCENT <= m /\ m <= 98)
                /\ (status = <<GREEN>>) <=> (m < config.YELLOW_WARNING_PERCENT)

\* C2 amended: status is red iff m >= 100, yellow iff
\* yellow_warning_percent <= m <= 99, and green otherwise (0 <= m <
\* yellow_warning_percent); m = 99 gives yellow.
C2_StatusAmended ==
    Completed =>
        \A rec \in call.returned :
            LET m == MaxGauge(rec)
                status == rec.analytics_status_LED
            IN  /\ GaugesOf(rec) # {}
                /\ (status = <<RED>>) <=> (m >= 100)
                /\ (status = <<YELLOW>>) <=>
                        (config.YELLOW_WARNING_PERCENT <= m /\ m <= 99)
                /\ (status = <<GREEN>>) <=> (0 <= m /\ m < config.YELLOW_WARNING_PERCENT)

\* A record whose maximum gauge is exactly 99 is yellow.
C2_Witness ==
    /\ Completed
    /\ \E rec \in call.returned :
        MaxGauge(rec) = 99 /\ rec.analytics_status_LED = <<YELLOW>>

\* The stored readings of firefighter e that lie in the call's grid.
GridReadings(e) ==
    {r \in sensor_log :
        /\ r.firefighter_id = e
        /\ \E row \in call.cleaned :
            row.group = e /\ row.timestamp_mins = r.timestamp_mins}

\* The grid rows of minutes for which the firefighter has no reading.
MissingRows ==
    {row \in call.cleaned :
        ~ \E r \in GridReadings(row.group) : r.timestamp_mins = row.timestamp_mins}

Filled(row) == row.firefighter_id # NaN

PriorReading(row) ==
    LET before == {r \in GridReadings(row.group) : r.timestamp_mins < row.timestamp_mins}
    IN  CHOOSE r \in before : \A q \in before : q.timestamp_mins <= r.timestamp_mins

NextReading(row) ==
    LET after == {r \in GridReadings(row.group) : r.timestamp_mins > row.timestamp_mins}
    IN  CHOOSE r \in after : \A q \in after : r.timestamp_mins <= q.timestamp_mins

\* The gaps of the grid: two readings a, b of one firefighter with no
\* reading of that firefighter between them, and the timestamps between.
Gaps ==
    {<<a, b>> \in sensor_log \X sensor_log :
        /\ a.firefighter_id = b.firefighter_id
        /\ a \in GridReadings(a.firefighter_id)
        /\ b \in GridReadings(a.firefighter_id)
        /\ a.timestamp_mins < b.timestamp_mins
        /\ ~ \E r \in GridReadings(a.firefighter_id) :
                a.timestamp_mins < r.timestamp_mins /\ r.timestamp_mins < b.timestamp_mins}

GapLength(gap) == (gap[2].timestamp_mins - gap[1].timestamp_mins) \div SECS_PER_MIN - 1

\* The row of the i-th missing minute of a gap (i in 1 .. GapLength).
GapRow(gap, i) ==
    CHOOSE row \in call.cleaned :
        /\ row.group = gap[1].firefighter_id
        /\ row.timestamp_mins = gap[1].timestamp_mins + i * SECS_PER_MIN

\* C3 as stated: a missing minute that gets filled takes the most recent
\* prior reading of the firefighter, and in a gap of 5 missing minutes the
\* first 3 are filled and the last 2 stay empty.
C3_CarryForwardAsStated ==
    call.active =>
        /\ \A row \in MissingRows :
            Filled(row) => row.ppm = PriorReading(row).ppm
        /\ \A gap \in Gaps :
            GapLength(gap) = 5 =>
                /\ \A i \in 1 .. 3 : Filled(GapRow(gap, i))
                /\ \A i \in 4 .. 5 : ~ Filled(GapRow(gap, i))

\* C3 amended: a missing minute that gets filled takes the next reading of
\* the firefighter (the value after the gap is carried backward), and in a
\* gap of 5 missing minutes the last 3 are filled and the first 2 stay empty.
C3_BackfillAmended ==
    call.active =>
        /\ \A row \in MissingRows :
            Filled(row) =>
                /\ row.ppm = NextReading(row).ppm
                /\ row.firefighter_id = NextReading(row).firefighter_id
        /\ \A gap \in Gaps :
            GapLength(gap) = 5 =>
                /\ \A i \in 1 .. 2 : ~ Filled(GapRow(gap, i))
                /\ \A i \in 3 .. 5 : Filled(GapRow(gap, i))

\* The grid has a gap of 5 minutes between two readings of different values.
C3_Witness ==
    /\ call.active
    /\ \E gap \in Gaps : GapLength(gap) = 5 /\ gap[1].ppm # gap[2].ppm

C5_ZeroSampleWindowAbsent ==
    Completed =>
        \A rec \in call.returned, w \in Windows :
            FilledMinutes(rec.firefighter_id, w) = {} =>
                /\ w.label \notin DOMAIN rec.twa
                /\ w.label \notin DOMAIN rec.gauge

\* One firefighter has a record without the short window while another has
\* the short window.
C5_Witness ==
    /\ Completed
    /\ \E rec \in call.returned, other \in call.returned, w \in Windows :
        /\ FilledMinutes(rec.firefighter_id, w) = {}
        /\ w.label \notin DOMAIN rec.twa
        /\ DOMAIN rec.twa # {}
        /\ w.label \in DOMAIN other.twa

\* The limit window w configures for gas g.
LimitOf(label, g) ==
    (CHOOSE w \in Windows : w.label = label).gas_limits[g]

\* C6: every gauge is round(TWA / limit * 100) with the limit its own
\* window configures for its own gas; it is a non-negative integer and is
\* not clipped at 100.
C6_Gauge ==
    Completed =>
        \A rec \in call.returned :
            /\ DOMAIN rec.gauge = DOMAIN rec.twa
            /\ \A g \in Gases, l \in DOMAIN rec.twa :
                /\ rec.gauge[l][g] =
                        RoundHalfEven(rec.twa[l][g] * 100, LimitOf(l, g) * Pow10(Rounding))
                /\ rec.gauge[l][g] \in Nat

\* A gauge above 100, next to a gauge of the other gas that is not zero.
C6_Witness ==
    /\ Completed
    /\ \E rec \in call.returned :
        \E l \in DOMAIN rec.gauge :
            rec.gauge[l][CO] > 100 /\ rec.gauge[l][NO2] > 0

\* The checks of the validator that the configuration breaks: (1) a window
\* whose gas set differs from the first window's, (2) a supported gas the
\* first window has no limit for, (3) per supported gas, a configured limit
\* outside the sensor's range, (4) yellow_warning_percent not strictly
\* between 0 and 100, (5) safe_rounding_factor not a non-negative integer.
ViolatedChecks(cfg) ==
    LET ws == cfg.WINDOWS_AND_LIMITS
        limits(g) == {ws[i].gas_limits[g] : i \in {j \in DOMAIN ws : g \in DOMAIN ws[j].gas_limits}}
    IN  {Issue(1, "") : i \in {j \in DOMAIN ws :
                                DOMAIN ws[j].gas_limits # DOMAIN ws[1].gas_limits}}
        \cup {Issue(2, "") : g \in Range(cfg.SUPPORTED_GASES) \ DOMAIN ws[1].gas_limits}
        \cup {Issue(3, g) : g \in {h \in Range(cfg.SUPPORTED_GASES) \cap DOMAIN SENSOR_RANGE_PPM :
                                \E l \in limits(h) :
                                    \/ 100 * l < SENSOR_RANGE_PPM[h].min
                                    \/ 100 * l > SENSOR_RANGE_PPM[h].max}}
        \cup {Issue(4, "") : y \in {cfg.YELLOW_WARNING_PERCENT} \ (1 .. 99)}
        \cup {Issue(5, "") : f \in {cfg.SAFE_ROUNDING_FACTOR} \ {IntFactor(n) : n \in 0 .. 9}}

\* C7: once the configuration has been validated, the diagnostic lists
\* every check the configuration breaks, whichever earlier checks it breaks.
C7_AllViolationsReported ==
    constructed # Pending => Range(constructed.diagnostic) = ViolatedChecks(config)

\* C8: run_analytics(t) ends as run_analytics(floor_to_minute(t)) does: the
\* same records, the same error if any.
C8_TickFlooring ==
    call.active =>
        LET floored == run_analytics(config, sensor_log, <<>>,
                                     FloorMin(call.time), call.commit).call
        IN  /\ call.returned = floored.returned
            /\ call.raised = floored.raised
            /\ call.none = floored.none

\* The reading of firefighter e in the tick's own minute, if any.
OwnMinuteReading(e) ==
    {r \in sensor_log :
        r.firefighter_id = e /\ r.timestamp_mins = FloorMin(call.time)}

KeyMinute == FloorMin(call.time - SECS_PER_MIN) \div SECS_PER_MIN

C10_SinkEffect ==
    [][ IF call'.active
        THEN LET data == get_block_of_sensor_readings(config, sensor_log, call'.time) # {}
             IN  /\ sink' = sink \/ sink' = Append(sink, call'.returned)
                 /\ sink' # sink => call'.commit /\ data
                 /\ (call'.commit /\ data /\ call'.raised = "none")
                        => sink' = Append(sink, call'.returned)
                 /\ (~ call'.commit \/ ~ data) => (sink' = sink /\ call'.raised = "none")
                 /\ ~ data => (call'.none /\ call'.returned = {})
        ELSE sink' = sink ]_vars

\* The rows of firefighter e in the call's grid that lie in the slice
\* [tick - w.mins + 1 min, tick] of window w, tick being the instant the
\* call was given: the samples the sanity assertion of line 278 counts.
SamplesInWindow(e, w) ==
    {row \in call.cleaned :
        /\ row.firefighter_id = e
        /\ call.time - w.mins * SECS_PER_MIN + SECS_PER_MIN <= row.timestamp_mins
        /\ row.timestamp_mins <= call.time}

\* C11: the sensor log holds at most one reading per (firefighter, minute);
\* in every run_analytics call, every firefighter has at most w.mins
\* per-minute samples inside the slice of every window w of the resampled,
\* gap-filled grid, and the sanity assertion of the window loop never fails.
C11_SampleCount ==
    /\ \A r1 \in sensor_log, r2 \in sensor_log :
            (r1.firefighter_id = r2.firefighter_id
                /\ r1.timestamp_mins = r2.timestamp_mins) => r1 = r2
    /\ call.active =>
            /\ call.raised # "AssertionError"
            /\ \A e \in Entities, w \in Windows :
                    Cardinality(SamplesInWindow(e, w)) <= w.mins

\* A call in which a firefighter has exactly w.mins samples in the slice of
\* a window w, one of them gap-filled, and a record with that window's TWA.
C11_Witness ==
    /\ Completed
    /\ \E e \in Entities, w \in Windows :
        /\ Cardinality(SamplesInWindow(e, w)) = w.mins
        /\ \E row \in SamplesInWindow(e, w) :
                \A r \in sensor_log : r.firefighter_id = e
                                        => r.timestamp_mins # row.timestamp_mins
        /\ \E rec \in RecordsOf(e) : w.label \in DOMAIN rec.twa

\* C12: under a configuration that passed validation, whenever a call's
\* resampled grid holds a row, the status bin edges
\* [0, yellow_warning_percent - 1, 99, infinity] are strictly increasing,
\* the call does not raise, and every record whose maximum gauge is a
\* non-negative integer has exactly one status among green, yellow and red.
C12_StatusDefined ==
    (call.active /\ call.cleaned # {}) =>
        /\ BinsValid(config.YELLOW_WARNING_PERCENT - 1)
        /\ call.raised = "none"
        /\ \A rec \in call.returned :
                (GaugesOf(rec) # {} /\ MaxGauge(rec) >= 0) =>
                    rec.analytics_status_LED \in {<<GREEN>>, <<YELLOW>>, <<RED>>}

\* The block the call read: the readings of [tick - longest_window, tick].
BlockOfCall == get_block_of_sensor_readings(config, sensor_log, call.time)

\* C13: whenever the block read for a tick holds at least one reading,
\* run_analytics completes without raising and returns at least one record.
\* The property is stated for ticks on the minute and status bins that
\* increase strictly, so that only the block and the slices decide it.
C13_NonEmptyBlockYieldsRecords ==
    (/\ call.active
     /\ call.time = FloorMin(call.time)
     /\ BinsValid(config.YELLOW_WARNING_PERCENT - 1)
     /\ BlockOfCall # {}) =>
        /\ call.raised = "none"
        /\ ~ call.none
        /\ call.returned # {}

====
